---------------------------- MODULE Spec2Model ----------------------------
(***************************************************************************)
(* Model of the Dyacon CM1 weewx driver (bin/user/cm1.py).                 *)
(*                                                                         *)
(*   Spec       the driver: CM1Driver.__init__, genLoopPackets and         *)
(*              _get_with_retries over a transport that may fail           *)
(*   SpecDecode the register decoders: CM1.get_current applied to the      *)
(*              holding registers of a device                              *)
(*   SpecClock  the station clock: CM1.set_clock and CM1.get_clock         *)
(*                                                                         *)
(* Python values are modelled as records [t, h, n, d]: t is the type tag   *)
(* and the number is (h * 2^16 + n) / d, so x * 0.1 is [t |-> "float",     *)
(* h |-> 0, n |-> x, d |-> 10] and (a << 16) + b is [t |-> "int", h |-> a, *)
(* n |-> b, d |-> 1].  Binary floating-point rounding is not modelled.     *)
(***************************************************************************)
EXTENDS Integers, Sequences, FiniteSets, TLC

VARIABLES
    max_tries,    \* CM1Driver.max_tries
    bucket_size,  \* CM1Driver.bucket_size, a float (mm per count)
    pc,           \* "init" (__init__), "loop" (genLoopPackets), "raised", "off"
    method,       \* the station method _get_with_retries is calling
    n,            \* attempts made so far by the running _get_with_retries
    hist,         \* the exception of each failed attempt of the running call
    last_rain,    \* CM1Driver.last_rain
    raw_data,     \* the data the last _get_with_retries('get_current') returned
    pkt,          \* the packet genLoopPackets yielded last
    emitted,      \* number of packets yielded
    calls,        \* number of _get_with_retries('get_current') calls started
    err,          \* the exception that left the driver, if any
    params,       \* the system parameters read by __init__
    reads,        \* the _read_registers calls of the latest attempt, in order
    bank,         \* decoder harness: the device's registers 200..291
    power,        \* decoder harness: the device's registers 108..110
    dout,         \* decoder harness: what get_current returned
    tm,           \* clock harness: the local time handed to set_clock
    clock,        \* clock harness: the device's registers 104..107
    clk           \* clock harness: what get_clock parsed

vars == <<max_tries, bucket_size, pc, method, n, hist, last_rain, raw_data,
          pkt, emitted, calls, err, params, reads, bank, power, dout, tm,
          clock, clk>>

driverVars == <<max_tries, bucket_size, pc, method, n, hist, last_rain,
                raw_data, pkt, emitted, calls, err, params, reads>>
decodeVars == <<bank, power, dout>>
clockVars == <<tm, clock, clk>>

---------------------------------------------------------------------------
(* Bounds of the model *)

MaxTries == 3      \* max_tries is drawn from 0..MaxTries
MaxCounter == 3    \* the rain day-total counter is drawn from 0..MaxCounter
MaxCycles == 3     \* packets yielded before the model stops polling
WordRadius == 1    \* register words are sampled this far around each boundary

---------------------------------------------------------------------------
(* Python values *)

None == [t |-> "None", h |-> 0, n |-> 0, d |-> 1]
IntV(x) == [t |-> "int", h |-> 0, n |-> x, d |-> 1]
FloatV(x, den) == [t |-> "float", h |-> 0, n |-> x, d |-> den]

IsNumeric(v) == v.t \in {"int", "float"}

\* int * float and float * float of Python, as exact rationals
Times(v, f) == [t |-> "float", h |-> 0, n |-> v.n * f.n, d |-> v.d * f.d]

Ok(d) == [ok |-> TRUE, data |-> d, exc |-> "none"]
Raise(e) == [ok |-> FALSE, data |-> <<>>, exc |-> e]

\* dict.update: the entries of new replace those of old
Update(old, new) == new @@ old

\* data.update(decode(...)) in a method whose earlier statement may have raised
Then(acc, r) ==
    IF ~acc.ok THEN acc
    ELSE IF ~r.ok THEN r
    ELSE Ok(Update(acc.data, r.data))

\* x[a:b] of a Python list (0-based, truncated to the list)
Slice(x, a, b) ==
    LET hi == IF b < Len(x) THEN b ELSE Len(x)
    IN IF a + 1 > hi THEN <<>> ELSE SubSeq(x, a + 1, hi)

\* x[i] of a Python list (0-based) is defined for 0 <= i < len(x)
Has(x, i) == i < Len(x)
At(x, i) == x[i + 1]

---------------------------------------------------------------------------
(* Primitive codecs *)

Word == 65536

RECURSIVE BitAnd(_, _)
BitAnd(a, b) ==
    IF a = 0 \/ b = 0 THEN 0
    ELSE (IF a % 2 = 1 /\ b % 2 = 1 THEN 1 ELSE 0)
         + 2 * BitAnd(a \div 2, b \div 2)

to_signed(x) ==
    IF BitAnd(x, Word \div 2) # 0 THEN x - Word ELSE x

\* (a << 16) + b of two register words: a is the high half, b the low half
to_long(a, b) == [t |-> "int", h |-> a, n |-> b, d |-> 1]

\* struct.pack('>HH', a, b) gives the four bytes a_hi a_lo b_hi b_lo; the
\* host's reading of them as a native float is left uninterpreted
to_float(a, b) == [t |-> "f32", h |-> a, n |-> b, d |-> 1]

SentinelCalculated == -9990

\* mutant: the sentinel is tested on the unsigned register word
to_calculated_unsigned_test(x) ==
    IF x = SentinelCalculated THEN None ELSE FloatV(to_signed(x), 10)

to_calculated(x) ==
    LET s == to_signed(x)
    IN IF s = SentinelCalculated THEN None ELSE FloatV(s, 10)

---------------------------------------------------------------------------
(* Block decoders.  Each returns Ok(dict) or raises IndexError where the   *)
(* Python code indexes past the end of the slice it was given.             *)

decode_power(x) ==
    IF ~Has(x, 2) THEN Raise("IndexError")
    ELSE Ok(("battery_voltage" :> FloatV(At(x, 0), 1000))
            @@ ("solar_voltage" :> FloatV(At(x, 1), 1000))
            @@ ("charger_status" :> IntV(At(x, 2))))

WindKeys == {"wind_speed", "wind_dir", "wind_speed_2m", "wind_dir_2m",
             "wind_speed_10m", "wind_dir_10m", "wind_gust_speed",
             "wind_gust_dir"}

\* the register of the wind slice each key is read from
WindIndex == ("wind_speed" :> 1) @@ ("wind_dir" :> 2)
             @@ ("wind_speed_2m" :> 3) @@ ("wind_dir_2m" :> 4)
             @@ ("wind_speed_10m" :> 5) @@ ("wind_dir_10m" :> 6)
             @@ ("wind_gust_speed" :> 7) @@ ("wind_gust_dir" :> 8)

\* "no sensor attached"
wind_absent(status) == status = -1

decode_wind(x) ==
    IF ~Has(x, 0) THEN Raise("IndexError")
    ELSE LET status == ("wind_status" :> IntV(At(x, 0)))
         IN IF wind_absent(At(x, 0)) THEN Ok(status)
            ELSE IF At(x, 0) = 0
            THEN IF ~Has(x, 8) THEN Raise("IndexError")
                 ELSE Ok([k \in WindKeys |-> FloatV(At(x, WindIndex[k]), 10)]
                         @@ status)
            ELSE Ok([k \in WindKeys |-> None] @@ status)

tph_absent(status) == status = -1

\* status & 0x01 == 0x01: temperature and humidity are not available
tph_th_off(status) == BitAnd(status, 1) = 1

\* mutant: the pressure half is gated by bit 0 as well
tph_p_off_bit0(status) == BitAnd(status, 1) = 1

\* status & 0x02 == 0x02: pressure, trend and its temperature are not available
tph_p_off(status) == BitAnd(status, 2) = 2

decode_tph(x) ==
    IF ~Has(x, 0) THEN Raise("IndexError")
    ELSE LET status == ("tph_status" :> IntV(At(x, 0)))
             th_off == tph_th_off(At(x, 0))
             p_off == tph_p_off(At(x, 0))
         IN IF tph_absent(At(x, 0)) THEN Ok(status)
            ELSE IF (~th_off /\ ~Has(x, 2)) \/ (~p_off /\ ~Has(x, 5))
            THEN Raise("IndexError")
            ELSE Ok((IF th_off
                     THEN ("temperature" :> None) @@ ("humidity" :> None)
                     ELSE ("temperature" :> FloatV(At(x, 1), 10))
                          @@ ("humidity" :> FloatV(At(x, 2), 10)))
                    @@ (IF p_off
                        THEN ("pressure" :> None) @@ ("pressure_trend" :> None)
                             @@ ("temperature_p" :> None)
                        ELSE ("pressure" :> FloatV(At(x, 3), 10))
                             @@ ("pressure_trend" :> IntV(At(x, 4)))
                             @@ ("temperature_p" :> FloatV(At(x, 5), 10)))
                    @@ status)

decode_rain(x) ==
    IF ~Has(x, 1) THEN Raise("IndexError")
    ELSE Ok(("rain_day_total" :> IntV(At(x, 0)))
            @@ ("rain_rate" :> IntV(At(x, 1))))

decode_analog(x, label) ==
    IF ~Has(x, 1) THEN Raise("IndexError")
    ELSE Ok((label :> to_float(At(x, 0), At(x, 1))))

decode_calculated(x) ==
    IF ~Has(x, 3) THEN Raise("IndexError")
    ELSE Ok(("heatindex" :> to_calculated(At(x, 0)))
            @@ ("windchill" :> to_calculated(At(x, 1)))
            @@ ("dewpoint" :> to_calculated(At(x, 2)))
            @@ ("wetbulb" :> to_calculated(At(x, 3))))

LightningKeys == {"lightning_strike_count", "lightning_noise_count",
                  "lightning_disturber_count", "lightning_distance",
                  "lightning_energy", "lightning_strike_count_10m",
                  "lightning_strike_count_30m", "lightning_strike_count_60m",
                  "lightning_noise_count_60m", "lightning_disturber_count_60m"}

LightningOff == 128

\* mutant: 0x0080 is tested as a bit of the status word
lightning_off_bit(status) == BitAnd(status, LightningOff) = LightningOff

lightning_off(status) == status = LightningOff

decode_lightning(x) ==
    IF ~Has(x, 0) THEN Raise("IndexError")
    ELSE LET status == ("lightning_status" :> IntV(At(x, 0)))
         IN IF lightning_off(At(x, 0))
            THEN Ok([k \in LightningKeys |-> None] @@ status)
            ELSE IF ~Has(x, 11) THEN Raise("IndexError")
            ELSE Ok(("lightning_strike_count" :> IntV(At(x, 1)))
                    @@ ("lightning_noise_count" :> IntV(At(x, 2)))
                    @@ ("lightning_disturber_count" :> IntV(At(x, 3)))
                    @@ ("lightning_distance" :> IntV(At(x, 4)))
                    @@ ("lightning_energy" :> to_long(At(x, 5), At(x, 6)))
                    @@ ("lightning_strike_count_10m" :> IntV(At(x, 7)))
                    @@ ("lightning_strike_count_30m" :> IntV(At(x, 8)))
                    @@ ("lightning_strike_count_60m" :> IntV(At(x, 9)))
                    @@ ("lightning_noise_count_60m" :> IntV(At(x, 10)))
                    @@ ("lightning_disturber_count_60m" :> IntV(At(x, 11)))
                    @@ status)

---------------------------------------------------------------------------
(* Station methods.  r, r1, r2 are what _read_registers gave: Ok(words) or *)
(* the exception the transport raised.                                     *)

PowerReg == 108
PowerLen == 3
MainReg == 200
MainLen == 92
ParamReg == 100
ParamLen == 11

\* a call self._read_registers(reg, cnt) and what it gave
Read(reg, cnt, r) == [reg |-> reg, cnt |-> cnt, res |-> r]

\* the calls of _read_registers one call of get_system_parameters makes
reads_of_get_system_parameters(r) == <<Read(ParamReg, ParamLen, r)>>

\* the calls of _read_registers one call of get_current makes: the 200..
\* window is asked for only after the 108.. window was read and decoded
reads_of_get_current(r1, r2) ==
    IF ~r1.ok \/ ~decode_power(r1.data).ok
    THEN <<Read(PowerReg, PowerLen, r1)>>
    ELSE <<Read(PowerReg, PowerLen, r1), Read(MainReg, MainLen, r2)>>

\* the slice of the 200.. window that holds the calculated block
calculated_slice(x) == Slice(x, 40, 42) \o Slice(x, 48, 50)

\* mutant: the 108.. window of a failed attempt is kept, and the retry
\* builds its data from it instead of the window it has just read
get_current_keeps_power(r1, r2) ==
    LET kept == IF n > 0 /\ reads # <<>> /\ reads[1].reg = PowerReg
                   /\ reads[1].res.ok
                THEN reads[1].res ELSE r1
    IN IF ~kept.ok THEN Raise(kept.exc)
       ELSE LET d1 == Then(Ok(<<>>), decode_power(kept.data))
            IN IF ~d1.ok THEN d1
               ELSE IF ~r2.ok THEN Raise(r2.exc)
               ELSE LET x == r2.data
                    IN Then(Then(Then(Then(Then(Then(Then(d1,
                           decode_wind(Slice(x, 0, 9))),
                           decode_tph(Slice(x, 20, 26))),
                           decode_rain(Slice(x, 42, 44))),
                           decode_analog(Slice(x, 44, 46), "analog_1")),
                           decode_analog(Slice(x, 46, 48), "analog_2")),
                           decode_calculated(calculated_slice(x))),
                           decode_lightning(Slice(x, 80, 92)))

get_current(r1, r2) ==
    IF ~r1.ok THEN Raise(r1.exc)
    ELSE LET d1 == Then(Ok(<<>>), decode_power(r1.data))
         IN IF ~d1.ok THEN d1
            ELSE IF ~r2.ok THEN Raise(r2.exc)
            ELSE LET x == r2.data
                 IN Then(Then(Then(Then(Then(Then(Then(d1,
                        decode_wind(Slice(x, 0, 9))),
                        decode_tph(Slice(x, 20, 26))),
                        decode_rain(Slice(x, 42, 44))),
                        decode_analog(Slice(x, 44, 46), "analog_1")),
                        decode_analog(Slice(x, 46, 48), "analog_2")),
                        decode_calculated(calculated_slice(x))),
                        decode_lightning(Slice(x, 80, 92)))

get_system_parameters(r) ==
    IF ~r.ok THEN Raise(r.exc)
    ELSE LET x == r.data
         IN IF ~Has(x, 10) THEN Raise("IndexError")
            ELSE Ok(("product_id" :> IntV(to_signed(At(x, 0))))
                    @@ ("firmware_version" :> IntV(At(x, 1)))
                    @@ ("serial_number" :> to_long(At(x, 2), At(x, 3)))
                    @@ ("time" :> to_long(At(x, 4), At(x, 5)))
                    @@ ("date" :> to_long(At(x, 6), At(x, 7)))
                    @@ ("battery_voltage" :> FloatV(At(x, 8), 1000))
                    @@ ("solar_voltage" :> FloatV(At(x, 9), 1000))
                    @@ ("charger_status" :> IntV(At(x, 10))))

---------------------------------------------------------------------------
(* Values the variables of a harness hold while another one runs *)

Pending == Raise("pending")
NoPkt == <<>>
NoData == <<>>

NoErr == [type |-> "none", method |-> "none", tries |-> 0, cause |-> "none"]

DriverOff ==
    /\ max_tries = 0 /\ bucket_size = None /\ pc = "off" /\ method = "none"
    /\ n = 0 /\ hist = <<>> /\ last_rain = None /\ raw_data = NoData
    /\ pkt = NoPkt /\ emitted = 0 /\ calls = 0 /\ err = NoErr
    /\ params = Pending /\ reads = <<>>

DecodeOff == bank = <<>> /\ power = <<>> /\ dout = Pending

ClockOff == tm = <<>> /\ clock = <<>> /\ clk = Pending

---------------------------------------------------------------------------
(* SpecDecode: get_current on the registers of a device.  The device holds *)
(* a fill pattern, a status word st in the three status registers, and the *)
(* word w in register 200 + p.                                             *)

Boundaries == {0, 128, 32768, 55546, 65535}

WordSamples ==
    {w \in UNION {(b - WordRadius)..(b + WordRadius) : b \in Boundaries} :
        w >= 0 /\ w < Word}
    \cup {50, 63, 1800}

StatusSamples == {0, 1, 2, 3, 128, 65535}

\* offsets in the 200.. window of the blocks get_current decodes
WindAt == 0
TphAt == 20
RainAt == 42
LightningAt == 80

StatusOffsets == {WindAt, TphAt, LightningAt}

Offsets == (0..8) \cup (20..25) \cup (40..49) \cup (80..91)

Fills == {[base |-> 0, step |-> 0], [base |-> 1000, step |-> 1],
          [base |-> 65535, step |-> -1]}

DeviceBank(fill, st, p, w) ==
    [i \in 1..MainLen |->
        IF i - 1 = p THEN w
        ELSE IF i - 1 \in StatusOffsets THEN st
        ELSE fill.base + fill.step * (i - 1)]

PowerSamples == {<<0, 0, 0>>, <<12600, 18000, 3>>}

\* CM1._read_registers on a healthy link: the words the device holds
read_registers(words) == Ok(words)

InitDecode ==
    /\ DriverOff /\ ClockOff
    /\ \E fill \in Fills, st \in StatusSamples, p \in Offsets, w \in WordSamples :
           bank = DeviceBank(fill, st, p, w)
    /\ power \in PowerSamples
    /\ dout = Pending

GetCurrent ==
    /\ pc = "off" /\ bank # <<>> /\ dout = Pending
    /\ dout' = get_current(read_registers(power), read_registers(bank))
    /\ UNCHANGED <<bank, power>>
    /\ UNCHANGED driverVars /\ UNCHANGED clockVars

NextDecode == GetCurrent

SpecDecode == InitDecode /\ [][NextDecode]_vars

---------------------------------------------------------------------------
(* The driver: CM1Driver *)

DEFAULT_MAP ==
    [pressure |-> "pressure", outTemp |-> "temperature",
     outHumidity |-> "humidity", windSpeed |-> "wind_speed",
     windDir |-> "wind_dir", windGust |-> "wind_gust_speed",
     windGustDir |-> "wind_gust_dir", rainRate |-> "rain_rate",
     heatindex |-> "heatindex", windchill |-> "windchill",
     dewpoint |-> "dewpoint", wetbulb |-> "wetbulb",
     extraTemp1 |-> "analog_1", extraTemp2 |-> "analog_2",
     lightning_disturber_count |-> "lightning_disturber_count",
     lightning_strike_count |-> "lightning_strike_count",
     lightning_noise_count |-> "lightning_noise_count",
     lightning_distance |-> "lightning_distance",
     lightning_energy |-> "lightning_energy",
     solar_voltage |-> "solar_voltage",
     battery_voltage |-> "battery_voltage",
     charger_status |-> "charger_status", tph_status |-> "tph_status",
     lightning_status |-> "lightning_status", wind_status |-> "wind_status"]

METRICWX == [t |-> "METRICWX", h |-> 0, n |-> 0, d |-> 1]

\* weewx.wxformulas.calculate_rain, imported from the weewx library: the
\* difference of two cumulative totals, None when either is None or when
\* the new total is below the old one (a counter reset)
calculate_rain(newtotal, oldtotal) ==
    IF newtotal # None /\ oldtotal # None
    THEN IF newtotal.n >= oldtotal.n
         THEN IntV(newtotal.n - oldtotal.n)
         ELSE None
    ELSE None

\* mutant: the rain increment is left in counts
rain_of_unscaled(data, last, bucket) ==
    calculate_rain(data["rain_day_total"], last)

\* pkt['rain'] of genLoopPackets
rain_of(data, last, bucket) ==
    LET r == calculate_rain(data["rain_day_total"], last)
    IN IF r # None THEN Times(r, bucket) ELSE r

\* mutant: the counter is stored only when an increment was computed
next_last_rain_if_rain(data, last) ==
    IF "rain_day_total" \in DOMAIN data
       /\ calculate_rain(data["rain_day_total"], last) # None
    THEN data["rain_day_total"] ELSE last

\* self.last_rain after the packet is built
next_last_rain(data, last) ==
    IF "rain_day_total" \in DOMAIN data THEN data["rain_day_total"] ELSE last

\* the packet genLoopPackets builds from data (its dateTime, the wall clock
\* of the host, is left out)
packet(data, last, bucket) ==
    LET mapped == [k \in {k \in DOMAIN DEFAULT_MAP :
                             DEFAULT_MAP[k] \in DOMAIN data}
                      |-> data[DEFAULT_MAP[k]]]
        p1 == mapped @@ ("usUnits" :> METRICWX)
        p2 == IF "rain_day_total" \in DOMAIN data
              THEN ("rain" :> rain_of(data, last, bucket)) @@ p1
              ELSE p1
    IN IF "rainRate" \in DOMAIN p2 /\ p2["rainRate"] # None
       THEN ("rainRate" :> Times(p2["rainRate"], bucket)) @@ p2
       ELSE p2

\* the exceptions _get_with_retries catches and retries
Caught == {"IOError", "ValueError", "TypeError"}

\* mutant: only transport errors are retried
retried_only_io(exc) == exc = "IOError"

retried(exc) == exc \in Caught

\* mutant: the loop makes one attempt too many
more_tries_off_by_one(tries, max) == tries <= max

\* for n in range(self.max_tries): another attempt is made
more_tries(tries, max) == tries < max

\* mutant: the error is raised with the last attempt's exception attached
WeeWxIOError_with_cause(m, max) ==
    [type |-> "WeeWxIOError", method |-> m, tries |-> max,
     cause |-> IF hist = <<>> THEN "none" ELSE hist[Len(hist)]]

\* raise weewx.WeeWxIOError("%s: max tries %s exceeded" % (method, max_tries)):
\* the error is built from the method name and max_tries alone; e, the
\* exception of an attempt, went to loginf and is not passed on
WeeWxIOError(m, max) ==
    [type |-> "WeeWxIOError", method |-> m, tries |-> max, cause |-> "none"]

Uncaught(exc) ==
    [type |-> exc, method |-> "none", tries |-> 0, cause |-> "none"]

---------------------------------------------------------------------------
(* The transport: what _read_registers can give the driver *)

ReadErrors == {"IOError", "ValueError", "TypeError"}

RateSamples == {0, 4}

\* registers 200..291 of a station with all sensors attached and healthy,
\* its rain counter at c and its rain rate at r
MainWindow(c, r) ==
    [i \in 1..MainLen |->
        IF i - 1 = RainAt THEN c ELSE IF i - 1 = RainAt + 1 THEN r ELSE 0]

ParamWindow == [i \in 1..ParamLen |-> i]

\* a window cut short of the count that was asked for
Short(x, len) == Slice(x, 0, len)

MainReads ==
    {Ok(MainWindow(c, r)) : c \in 0..MaxCounter, r \in RateSamples}
    \cup {Ok(Short(MainWindow(0, 0), RainAt + 1))}
    \cup {Raise(e) : e \in ReadErrors}

PowerWindows == {<<12600, 18000, 3>>, <<11900, 0, 0>>}

PowerReads == {Ok(w) : w \in PowerWindows} \cup {Raise(e) : e \in ReadErrors}

\* the second read of get_current is made only when the first returned
Unread == Raise("unread")
MainReadsAfter(r1) == IF r1.ok THEN MainReads ELSE {Unread}

ParamReads ==
    {Ok(ParamWindow), Ok(Short(ParamWindow, ParamLen - 1))}
    \cup {Raise(e) : e \in ReadErrors}

BucketSizes == {FloatV(2, 10), FloatV(5, 10)}

---------------------------------------------------------------------------
(* Spec: construction, then the polling loop *)

Init ==
    /\ DecodeOff /\ ClockOff
    /\ max_tries \in 0..MaxTries
    /\ bucket_size \in BucketSizes
    /\ pc = "init" /\ method = "get_system_parameters"
    /\ n = 0 /\ hist = <<>>
    /\ last_rain = None /\ raw_data = NoData
    /\ pkt = NoPkt /\ emitted = 0 /\ calls = 0
    /\ err = NoErr /\ params = Pending /\ reads = <<>>

Running == pc \in {"init", "loop"}

\* one pass of the loop body of _get_with_retries whose call raised exc
Failed(exc) ==
    /\ n' = n + 1
    /\ hist' = Append(hist, exc)
    /\ IF retried(exc)
       THEN UNCHANGED <<pc, err>>
       ELSE pc' = "raised" /\ err' = Uncaught(exc)
    /\ UNCHANGED <<method, last_rain, raw_data, pkt, emitted, calls, params>>

\* __init__: one attempt of _get_with_retries('get_system_parameters'); when
\* it returns, the driver is constructed and genLoopPackets makes its first
\* call
TryGetSystemParameters ==
    /\ pc = "init" /\ more_tries(n, max_tries)
    /\ \E r \in ParamReads :
         LET res == get_system_parameters(r)
         IN /\ IF res.ok
               THEN /\ params' = res
                    /\ pc' = "loop" /\ method' = "get_current"
                    /\ n' = 0 /\ hist' = <<>> /\ calls' = 1
                    /\ UNCHANGED <<last_rain, raw_data, pkt, emitted, err>>
               ELSE Failed(res.exc)
            /\ reads' = reads_of_get_system_parameters(r)
    /\ UNCHANGED <<max_tries, bucket_size>>
    /\ UNCHANGED decodeVars /\ UNCHANGED clockVars

\* station.get_current() and the reads it makes, tabulated over what the
\* transport can give
CurrentOf ==
    [r1 \in PowerReads, r2 \in MainReads \cup {Unread} |-> get_current(r1, r2)]
ReadsOf ==
    [r1 \in PowerReads, r2 \in MainReads \cup {Unread} |->
        reads_of_get_current(r1, r2)]

\* genLoopPackets: one attempt of _get_with_retries('get_current'); when it
\* returns, the packet is built and yielded, and after the poll interval the
\* loop makes its next call
TryGetCurrent ==
    /\ pc = "loop" /\ more_tries(n, max_tries)
    /\ emitted < MaxCycles
    /\ \E r1 \in PowerReads : \E r2 \in MainReadsAfter(r1) :
         LET res == CurrentOf[r1, r2]
         IN /\ IF res.ok
               THEN /\ raw_data' = res.data
                    /\ pkt' = packet(res.data, last_rain, bucket_size)
                    /\ last_rain' = next_last_rain(res.data, last_rain)
                    /\ emitted' = emitted + 1
                    /\ n' = 0 /\ hist' = <<>> /\ calls' = calls + 1
                    /\ UNCHANGED <<pc, method, err, params>>
               ELSE Failed(res.exc)
            /\ reads' = ReadsOf[r1, r2]
    /\ UNCHANGED <<max_tries, bucket_size>>
    /\ UNCHANGED decodeVars /\ UNCHANGED clockVars

\* the else clause of the for loop: every attempt failed
MaxTriesExceeded ==
    /\ Running /\ ~more_tries(n, max_tries)
    /\ pc' = "raised"
    /\ err' = WeeWxIOError(method, max_tries)
    /\ UNCHANGED <<max_tries, bucket_size, method, n, hist, last_rain,
                   raw_data, pkt, emitted, calls, params, reads>>
    /\ UNCHANGED decodeVars /\ UNCHANGED clockVars

Next == TryGetSystemParameters \/ TryGetCurrent \/ MaxTriesExceeded

Spec == Init /\ [][Next]_vars

---------------------------------------------------------------------------
(* Claims about the driver, under Spec *)

AllIOError == \A i \in 1..Len(hist) : hist[i] = "IOError"

\* The state part of C1: with max_tries N >= 1 and a transport that fails
\* with IOError on every attempt, _get_with_retries (at start-up and in a
\* poll cycle) makes at most N attempts, and has made exactly N when it
\* raises, which it does with the exhausted-retries error; no data is
\* returned and no reading is emitted by that call.
C1_Safety ==
    (max_tries >= 1 /\ AllIOError) =>
        /\ n = Len(hist) /\ n <= max_tries
        /\ pc = "raised" =>
               /\ n = max_tries
               /\ err = WeeWxIOError(method, max_tries)
               /\ method = "get_system_parameters" =>
                      params = Pending /\ emitted = 0 /\ calls = 0
               /\ method = "get_current" => emitted = calls - 1

\* C1: C1_Safety in every state, and from a call whose max_tries >= 1
\* attempts all failed with IOError the only step is the exhausted-retries
\* error, which yields no packet.
C1_RetryExhaustion ==
    /\ []C1_Safety
    /\ [][(max_tries >= 1 /\ AllIOError /\ Running /\ n = max_tries)
              => (pc' = "raised" /\ err'.type = "WeeWxIOError"
                  /\ emitted' = emitted /\ pkt' = pkt)]_vars

\* C1 witness: a poll cycle after an emitted reading gave up after exactly
\* max_tries = 3 failed attempts.
C1_Witness ==
    /\ pc = "raised" /\ max_tries = 3 /\ method = "get_current"
    /\ hist = <<"IOError", "IOError", "IOError">> /\ n = 3
    /\ err.type = "WeeWxIOError" /\ emitted = 1

NotRetried == {"ValueError", "TypeError", "IndexError"}

\* C2 as stated: an attempt that fails with a programmer/config error
\* (ValueError, TypeError) or a short-window error (IndexError) is the last
\* attempt of its call, and that error leaves the driver.
C2_Original ==
    \A i \in 1..Len(hist) :
        hist[i] \in NotRetried =>
            i = Len(hist) /\ pc = "raised" /\ err.type = hist[i]

\* C2 amended: an attempt that fails with a short-window error (IndexError)
\* is the last attempt of its call and that error leaves the driver at
\* once; a ValueError or TypeError is retried like a transport error and
\* never leaves the driver: the call then ends only by returning or, after
\* max_tries attempts, by the exhausted-retries error.
C2_ShortWindowNotRetried ==
    /\ \A i \in 1..Len(hist) :
           hist[i] = "IndexError" =>
               i = Len(hist) /\ n = i /\ pc = "raised"
               /\ err = Uncaught("IndexError")
    /\ pc = "raised" =>
           /\ err.type \in {"IndexError", "WeeWxIOError"}
           /\ err.type = "WeeWxIOError" => n = max_tries
    /\ \A i \in 1..Len(hist) :
           hist[i] \in {"ValueError", "TypeError"} =>
               \/ Running
               \/ err.type = "WeeWxIOError" /\ Len(hist) = max_tries
               \/ err.type = "IndexError" /\ i < Len(hist)

\* C2 witness: the first attempt of a call that could have made more hit a
\* short window, and the driver stopped after that one attempt.
C2_Witness ==
    /\ pc = "raised" /\ max_tries >= 2 /\ n = 1
    /\ hist = <<"IndexError">> /\ err.type = "IndexError"

Yielded == emitted' = emitted + 1
Counter == raw_data'["rain_day_total"].n
Scaled(k) == [t |-> "float", h |-> 0, n |-> k * bucket_size.n,
              d |-> bucket_size.d]

\* C3 as stated: the incremental rain of the first cycle is None; in a later
\* cycle it is (c - c_prev) * bucket_size when c >= c_prev and
\* c * bucket_size when c < c_prev.
C3_Original ==
    [][Yielded =>
          /\ "rain" \in DOMAIN pkt'
          /\ emitted = 0 => pkt'["rain"] = None
          /\ emitted > 0 =>
                 /\ last_rain # None
                 /\ Counter >= last_rain.n =>
                        pkt'["rain"] = Scaled(Counter - last_rain.n)
                 /\ Counter < last_rain.n =>
                        pkt'["rain"] = Scaled(Counter)]_vars

\* C3 amended: the incremental rain of the first cycle is None; in a later
\* cycle it is (c - c_prev) * bucket_size when c >= c_prev and None when
\* c < c_prev (the counter went down).
C3_RainIncrement ==
    [][Yielded =>
          /\ "rain" \in DOMAIN pkt'
          /\ emitted = 0 => pkt'["rain"] = None
          /\ emitted > 0 =>
                 /\ last_rain # None
                 /\ Counter >= last_rain.n =>
                        pkt'["rain"] = Scaled(Counter - last_rain.n)
                 /\ Counter < last_rain.n => pkt'["rain"] = None]_vars

\* C3 witness: three cycles, the second with a positive increment stored in
\* a counter that the third cycle found lower: its rain is None.
C3_Witness ==
    /\ emitted = 3 /\ "rain" \in DOMAIN pkt /\ pkt["rain"] = None
    /\ raw_data["rain_day_total"] = IntV(1)

\* C6: before the first returned reading last_rain is None; after every
\* cycle that returned a reading it is that cycle's raw day-total, whatever
\* the incremental rain was.
C6_LastRain ==
    /\ emitted = 0 => last_rain = None
    /\ emitted > 0 =>
           /\ "rain_day_total" \in DOMAIN raw_data
           /\ last_rain = raw_data["rain_day_total"]
           /\ last_rain.t = "int"

\* C6 witness: a later cycle whose counter went down to 2 and gave no
\* increment; the counter is stored all the same.
C6_Witness ==
    /\ emitted = 2 /\ pkt["rain"] = None
    /\ raw_data["rain_day_total"] = IntV(2) /\ last_rain = IntV(2)

Exhausted == pc = "raised" /\ err.type = "WeeWxIOError"

\* C11 as stated: when all max_tries >= 1 attempts of a call have failed,
\* the exhausted-retries error carries the exception of the last failed
\* attempt (attempt number max_tries) as its cause.
C11_Original ==
    (Exhausted /\ max_tries >= 1) =>
        Len(hist) = max_tries /\ err.cause = hist[max_tries]

\* C11 amended: when all attempts of a call have failed, the
\* exhausted-retries error carries the name of the method and max_tries and
\* no cause at all, neither that of the last attempt nor that of an earlier
\* one; the exception of each of the max_tries attempts was logged when it
\* was caught, and that is the only place it goes.
C11_ExhaustedCarriesNoCause ==
    Exhausted =>
        /\ Len(hist) = max_tries
        /\ err.method = method /\ err.tries = max_tries
        /\ err.cause = "none"
        /\ \A i \in 1..Len(hist) : hist[i] \in Caught /\ err.cause # hist[i]

\* C11 witness: a poll cycle gave up after two attempts that failed for
\* different reasons, and the error it raised names neither.
C11_Witness ==
    /\ Exhausted /\ max_tries = 2 /\ method = "get_current"
    /\ hist = <<"IOError", "ValueError">>
    /\ err = WeeWxIOError("get_current", 2) /\ err.cause = "none"

SubDict(a, b) == \A k \in DOMAIN a : k \in DOMAIN b /\ b[k] = a[k]

\* what the decoders make of a 108.. window w and a 200.. window x
Parts(w, x) ==
    <<decode_power(w), decode_wind(Slice(x, 0, 9)),
      decode_tph(Slice(x, 20, 26)), decode_rain(Slice(x, 42, 44)),
      decode_analog(Slice(x, 44, 46), "analog_1"),
      decode_analog(Slice(x, 46, 48), "analog_2"),
      decode_calculated(Slice(x, 40, 42) \o Slice(x, 48, 50)),
      decode_lightning(Slice(x, 80, 92))>>

\* the attempt that has just been made read registers 108-110 and then
\* 200-291, and both reads returned
ReadBoth ==
    /\ Len(reads') = 2
    /\ reads'[1].reg = 108 /\ reads'[1].cnt = 3 /\ reads'[1].res.ok
    /\ reads'[2].reg = 200 /\ reads'[2].cnt = 92 /\ reads'[2].res.ok

\* a step that yields a packet is the end of an attempt that read both
\* windows, and the next attempt is the first of a new call
C12_Yield == Yielded => ReadBoth /\ n' = 0 /\ pc' = "loop"

\* a reading has been emitted and no attempt was made since
JustYielded == pc = "loop" /\ emitted > 0 /\ n = 0

\* the data and the packet of the reading just emitted hold what the
\* decoders make of the two windows read by the attempt that returned it,
\* and nothing else
C12_Reading ==
    JustYielded =>
        /\ \A parts \in {Parts(reads[1].res.data, reads[2].res.data)} :
               /\ \A i \in 1..Len(parts) :
                      parts[i].ok /\ SubDict(parts[i].data, raw_data)
               /\ DOMAIN raw_data =
                      UNION {DOMAIN parts[i].data : i \in 1..Len(parts)}
        /\ \A k \in DOMAIN DEFAULT_MAP \ {"rainRate"} :
               DEFAULT_MAP[k] \in DOMAIN raw_data =>
                   k \in DOMAIN pkt /\ pkt[k] = raw_data[DEFAULT_MAP[k]]

\* a failed attempt of get_current: it began with the 108.. read, made the
\* 200.. read only if that one returned, and left the stored rain counter,
\* the last data and the last packet as they were, yielding nothing
C12_FailedAttempt ==
    (pc = "loop" /\ n' = n + 1) =>
        /\ ~Yielded
        /\ UNCHANGED <<last_rain, raw_data, pkt, emitted>>
        /\ Len(reads') \in {1, 2}
        /\ reads'[1].reg = 108
        /\ Len(reads') = 2 <=> reads'[1].res.ok
        /\ Len(reads') = 2 => reads'[2].reg = 200

\* C12: every emitted reading is built from a power window (registers
\* 108-110) and a main window (registers 200-291) that were both read, in
\* that order, by the one attempt that returned it; an attempt whose second
\* read fails keeps nothing of its first read, and the retry reads both
\* windows again, so a reading never mixes windows of different attempts;
\* a failed attempt neither changes the stored rain counter nor emits a
\* reading.
C12_SameAttemptWindows ==
    []C12_Reading /\ [][C12_Yield /\ C12_FailedAttempt]_vars

\* C12 witness: after a reading was emitted, an attempt read a power window
\* other than that reading's and then failed on the main window; the stored
\* reading and rain counter are still those of the emitted reading.
C12_Witness ==
    /\ pc = "loop" /\ emitted = 1 /\ n = 1 /\ hist = <<"IOError">>
    /\ Len(reads) = 2 /\ reads[1].res = Ok(<<11900, 0, 0>>)
    /\ reads[2].reg = 200 /\ reads[2].res = Raise("IOError")
    /\ raw_data["battery_voltage"] = FloatV(12600, 1000)
    /\ pkt["battery_voltage"] = FloatV(12600, 1000)
    /\ last_rain = IntV(2) /\ raw_data["rain_day_total"] = IntV(2)

---------------------------------------------------------------------------
(* Claims about the decoders, under SpecDecode *)

Decoded == dout.ok
Reg(off) == bank[off + 1]
Signed16(w) == IF w >= 32768 THEN w - 65536 ELSE w
Bit(w, i) == (w \div (2 ^ i)) % 2 = 1
In(k) == k \in DOMAIN dout.data
Is(k, v) == In(k) /\ dout.data[k] = v
IsNone(k) == Is(k, None)
IsNum(k) == In(k) /\ IsNumeric(dout.data[k])

\* C4: on the wind slice, status 0xFFFF gives none of the 8 wind keys,
\* status 0 gives all 8 keys with numbers, any other status gives all 8
\* keys, each None.
C4_WindGating ==
    Decoded =>
        /\ Reg(WindAt) = 65535 => \A k \in WindKeys : ~In(k)
        /\ Reg(WindAt) = 0 => \A k \in WindKeys : IsNum(k)
        /\ Reg(WindAt) \notin {0, 65535} => \A k \in WindKeys : IsNone(k)

\* C5: every scaled field of the wind and temperature/humidity/pressure
\* blocks decodes, when its status allows, to the signed 16-bit reading of
\* its word times 0.1, and pressure-trend to the signed reading of its word.
C5_SignedScaled ==
    Decoded =>
        /\ Reg(WindAt) = 0 =>
               \A k \in WindKeys :
                   Is(k, FloatV(Signed16(Reg(WindAt + WindIndex[k])), 10))
        /\ ~Bit(Reg(TphAt), 0) =>
               /\ Is("temperature", FloatV(Signed16(Reg(TphAt + 1)), 10))
               /\ Is("humidity", FloatV(Signed16(Reg(TphAt + 2)), 10))
        /\ ~Bit(Reg(TphAt), 1) =>
               /\ Is("pressure", FloatV(Signed16(Reg(TphAt + 3)), 10))
               /\ Is("pressure_trend", IntV(Signed16(Reg(TphAt + 4))))
               /\ Is("temperature_p", FloatV(Signed16(Reg(TphAt + 5)), 10))

LightningFields ==
    {k \in DOMAIN decode_lightning(Slice(bank, LightningAt, MainLen)).data :
        k # "lightning_status"}

LightningRaw ==
    /\ Is("lightning_strike_count", IntV(Reg(LightningAt + 1)))
    /\ Is("lightning_noise_count", IntV(Reg(LightningAt + 2)))
    /\ Is("lightning_disturber_count", IntV(Reg(LightningAt + 3)))
    /\ Is("lightning_distance", IntV(Reg(LightningAt + 4)))
    /\ In("lightning_energy")
    /\ dout.data["lightning_energy"].t = "int"
    /\ dout.data["lightning_energy"].h = Reg(LightningAt + 5)
    /\ dout.data["lightning_energy"].n = Reg(LightningAt + 6)
    /\ dout.data["lightning_energy"].d = 1
    /\ Is("lightning_strike_count_10m", IntV(Reg(LightningAt + 7)))
    /\ Is("lightning_strike_count_30m", IntV(Reg(LightningAt + 8)))
    /\ Is("lightning_strike_count_60m", IntV(Reg(LightningAt + 9)))
    /\ Is("lightning_noise_count_60m", IntV(Reg(LightningAt + 10)))
    /\ Is("lightning_disturber_count_60m", IntV(Reg(LightningAt + 11)))

\* C8 as stated: with status 0x0080 the 9 dependent lightning fields are all
\* None whatever the other words hold; with any other status the counts,
\* the distance and the windowed counters are the raw words and the energy
\* is (hi << 16) + lo.
C8_Original ==
    Decoded =>
        /\ Cardinality(LightningFields) = 9
        /\ Reg(LightningAt) = 128 => \A k \in LightningFields : IsNone(k)
        /\ Reg(LightningAt) # 128 => LightningRaw

\* C8 amended: the lightning block has 10 dependent fields (three counts,
\* distance, energy, and five windowed counters); with status 0x0080 all 10
\* are None whatever the other words hold, and with any other status they
\* are the raw words, the energy being (hi << 16) + lo.
C8_LightningGating ==
    Decoded =>
        /\ Cardinality(LightningFields) = 10
        /\ Reg(LightningAt) = 128 => \A k \in LightningFields : IsNone(k)
        /\ Reg(LightningAt) # 128 => LightningRaw

\* C8 witness: status 0x0080 over words that are not zero, all fields None.
C8_Witness ==
    /\ Decoded /\ Reg(LightningAt) = 128
    /\ \A i \in 1..11 : Reg(LightningAt + i) # 0
    /\ \A k \in LightningFields : IsNone(k)
    /\ IsNone("lightning_energy") /\ IsNone("lightning_distance")

\* the register offset each calculated field is read from: 240, 241, 248, 249
CalcOffset == ("heatindex" :> 40) @@ ("windchill" :> 41)
              @@ ("dewpoint" :> 48) @@ ("wetbulb" :> 49)

\* C9: each calculated field is None exactly when its word is 55546 (signed
\* -9990), and otherwise the signed 16-bit reading of its word times 0.1;
\* the four fields come from registers 240, 241, 248, 249 in that order.
C9_Calculated ==
    Decoded =>
        \A k \in DOMAIN CalcOffset :
            LET w == Reg(CalcOffset[k])
            IN /\ In(k)
               /\ IsNone(k) <=> w = 55546
               /\ w # 55546 => Is(k, FloatV(Signed16(w), 10))

\* C9 witness: the heat index word is the sentinel and decodes to None while
\* the other three fields decode to numbers.
C9_Witness ==
    /\ Decoded /\ Reg(40) = 55546 /\ IsNone("heatindex")
    /\ IsNum("windchill") /\ IsNum("dewpoint") /\ IsNum("wetbulb")
    /\ Reg(41) # Reg(48) /\ Reg(48) # Reg(49)

---------------------------------------------------------------------------
(* SpecClock: the station clock.  A local time is <<year, month, day,      *)
(* hour, minute, second>>; time.localtime and time.mktime, the host's      *)
(* conversions between it and the epoch, are outside the model.            *)

RECURSIVE Digits(_, _)
\* the last k decimal digits of v, most significant first
Digits(v, k) ==
    IF k = 0 THEN <<>> ELSE Append(Digits(v \div 10, k - 1), v % 10)

\* "%06d" % v, as a sequence of digits: at least six, zero-padded
Format06(v) ==
    IF v < 1000000 THEN Digits(v, 6)
    ELSE IF v < 10000000 THEN Digits(v, 7)
    ELSE Digits(v, 10)

\* the number two digits spell
Two(s, i) == s[i] * 10 + s[i + 1]

IsLeap(y) == (y % 4 = 0 /\ y % 100 # 0) \/ y % 400 = 0

DaysInMonth(y, m) ==
    IF m = 2 THEN (IF IsLeap(y) THEN 29 ELSE 28)
    ELSE IF m \in {4, 6, 9, 11} THEN 30 ELSE 31

\* time.strptime("20" + date + "." + time, "%Y%m%d.%H%M%S"): every directive
\* but %Y takes at most two digits, so a string with more than six digits on
\* either side of the point leaves data unconverted, and a field out of its
\* range matches nothing; both raise ValueError
strptime(date, time) ==
    IF Len(date) # 6 \/ Len(time) # 6 THEN Raise("ValueError")
    ELSE LET year == 2000 + Two(date, 1)
             mon == Two(date, 3)
             mday == Two(date, 5)
             hour == Two(time, 1)
             min == Two(time, 3)
             sec == Two(time, 5)
         IN IF /\ mon \in 1..12
               /\ mday \in 1..DaysInMonth(year, mon)
               /\ hour \in 0..23 /\ min \in 0..59 /\ sec \in 0..61
            THEN Ok(<<year, mon, mday, hour, min, sec>>)
            ELSE Raise("ValueError")

\* mutant: the date pair is read from the first two registers
get_clock_date_first(x) ==
    strptime(Format06(At(x, 0) * Word + At(x, 1)),
             Format06(At(x, 2) * Word + At(x, 3)))

\* CM1.get_clock on the words x of registers 104..107; the result is the
\* local time handed to time.mktime
get_clock(x) ==
    LET ds == At(x, 2) * Word + At(x, 3)
        ts == At(x, 0) * Word + At(x, 1)
    IN strptime(Format06(ds), Format06(ts))

\* CM1.set_clock: the words written to registers 104..107 for local time t
set_clock(t) ==
    LET ds == (t[1] - 2000) * 10000 + t[2] * 100 + t[3]
        dlo == ds % Word
        dhi == (ds - dlo) \div Word
        ts == t[4] * 10000 + t[5] * 100 + t[6]
        tlo == ts % Word
        thi == (ts - tlo) \div Word
    IN <<thi, tlo, dhi, dlo>>

YearSamples == {2000, 2001, 2016, 2099}
MonthSamples == {2, 12}
DaySamples == {1, 29, 31}
HourSamples == {0, 6, 23}
MinuteSamples == {0, 55, 59}
SecondSamples == {0, 36, 59}

\* the local times time.localtime gives for the sampled fields
Instants ==
    {t \in YearSamples \X MonthSamples \X DaySamples \X HourSamples
           \X MinuteSamples \X SecondSamples :
        t[3] <= DaysInMonth(t[1], t[2])}

\* a station whose clock was never set
ClockUnset == <<0, 0, 0, 0>>

InitClock ==
    /\ DriverOff /\ DecodeOff
    /\ tm = <<>> /\ clock = ClockUnset /\ clk = Pending

SetClock ==
    /\ pc = "off" /\ clock # <<>>
    /\ \E t \in Instants :
         /\ tm' = t
         /\ clock' = set_clock(t)
    /\ clk' = Pending
    /\ UNCHANGED driverVars /\ UNCHANGED decodeVars

GetClock ==
    /\ pc = "off" /\ clock # <<>>
    /\ clk' = get_clock(clock)
    /\ UNCHANGED <<tm, clock>>
    /\ UNCHANGED driverVars /\ UNCHANGED decodeVars

NextClock == SetClock \/ GetClock

SpecClock == InitClock /\ [][NextClock]_vars

\* C10: for a local time in 2000..2099, the four words set_clock writes at
\* register 104 are each in 0..65535, the first pair spells HHMMSS and the
\* second pair YYMMDD, and get_clock on those words gives back the same
\* year, month, day, hour, minute and second.
C10_ClockRoundTrip ==
    (tm # <<>> /\ tm[1] \in 2000..2099) =>
        /\ Len(clock) = 4
        /\ \A i \in 1..4 : clock[i] \in 0..65535
        /\ clock[1] * 65536 + clock[2] = tm[4] * 10000 + tm[5] * 100 + tm[6]
        /\ clock[3] * 65536 + clock[4]
               = (tm[1] - 2000) * 10000 + tm[2] * 100 + tm[3]
        /\ clk # Pending => clk = Ok(tm)

\* C10 witness: the last second of 2099, whose time and date both need the
\* high word, was written and read back.
C10_Witness ==
    /\ tm = <<2099, 12, 31, 23, 59, 59>>
    /\ clock[1] > 0 /\ clock[3] > 0
    /\ clk = Ok(tm)

===========================================================================
